---- MODULE Spec2Model ----
(***************************************************************************)
(* Model of rslib/src/backend/mod.rs: the command dispatcher               *)
(* (run_command_bytes, run_command, run_command_inner), the collection     *)
(* guard (Backend.col : Arc<Mutex<Option<Collection>>>, open_collection,   *)
(* close_collection, with_col), the release-then-reacquire media sync      *)
(* (sync_media, sync_media_inner), the progress channel                    *)
(* (fire_progress_callback) and the error translator                       *)
(* (anki_error_to_proto_error).                                            *)
(*                                                                         *)
(* Several host threads may be inside the backend at once (the guard is an *)
(* Arc<Mutex<..>> for that reason); each caller is a process whose pc is   *)
(* its position in the handler it runs.  A panic that unwinds while the    *)
(* mutex guard is alive poisons the std Mutex, after which every           *)
(* `lock().unwrap()` panics.                                               *)
(***************************************************************************)
EXTENDS Integers, FiniteSets, Sequences, TLC

\* ------------------------------------------------------------------ bounds
\* Number of host threads issuing requests.
NumCallers == 2
\* Number of collection handles that can be constructed successfully.
MaxOpens == 2
\* Number of progress snapshots one long operation delivers at most.
MaxProgress == 2

\* Number of templates in one template-requirements request.
MaxTemplates == 2
\* Number of cards the collection's storage holds at most.
MaxCards == 1

Callers == 1..NumCallers

\* ------------------------------------------------------------------ values
\* pb::backend_input::Value, the variants run_command_inner matches on.
Variants ==
    { "TemplateRequirements", "SchedTimingToday", "DeckTree", "RenderCard",
      "LocalMinutesWest", "StripAvTags", "ExtractAvTags", "ExtractLatex",
      "AddMediaFile", "SyncMedia", "CheckMedia", "TrashMediaFiles",
      "TranslateString", "FormatTimeSpan", "StudiedToday", "CongratsLearnMsg",
      "EmptyTrash", "RestoreTrash", "OpenCollection", "CloseCollection",
      "SearchCards", "SearchNotes", "GetCard", "UpdateCard", "AddCard" }

\* Handlers that never touch self.col.
Stateless ==
    { "TemplateRequirements", "SchedTimingToday", "RenderCard",
      "LocalMinutesWest", "StripAvTags", "ExtractAvTags", "ExtractLatex",
      "TranslateString", "FormatTimeSpan", "StudiedToday", "CongratsLearnMsg" }

\* Handlers whose body is a with_col closure.
WithCol ==
    { "AddMediaFile", "CheckMedia", "TrashMediaFiles", "EmptyTrash",
      "RestoreTrash", "SearchCards", "SearchNotes", "GetCard", "UpdateCard",
      "AddCard" }

\* with_col handlers that run a MediaChecker with a progress callback.
Checkers == { "CheckMedia", "EmptyTrash", "RestoreTrash" }

\* Handlers that first convert a pb::Card with pbcard_to_native.
CardIn == { "UpdateCard", "AddCard" }

\* Request byte buffers: undecodable bytes, an envelope whose inner value is
\* absent, or an envelope carrying one variant.
Buffers == { "Garbage", "Absent" } \cup Variants

\* Result<T>, or the unwinding of a panic, or nothing yet.  `data` is the
\* payload of an Ok value where the model follows it (a list; empty otherwise).
OkData(v, d) == [tag |-> "Ok", val |-> v, kind |-> "-", data |-> d]
Ok(v) == OkData(v, <<>>)
Err(e, k) == [tag |-> "Err", val |-> e, kind |-> k, data |-> <<>>]
Panic == [tag |-> "Panic", val |-> "-", kind |-> "-", data |-> <<>>]
NoResult == [tag |-> "None", val |-> "-", kind |-> "-", data |-> <<>>]

CollectionNotOpen == Err("CollectionNotOpen", "-")
CollectionAlreadyOpen == Err("CollectionAlreadyOpen", "-")
InvalidInput == Err("InvalidInput", "-")
Interrupted == Err("Interrupted", "-")

\* ---------------------------------------------------------------- templates
\* Field ordinals of the note type a template-requirements request names.
Ords == { 0, 1 }

\* A front template of pb::TemplateRequirementsIn, as far as the handler looks
\* at it: whether ParsedTemplate::from_text accepts it and, if so, what
\* ParsedTemplate::requirements returns for it (FieldRequirements::Any(ords),
\* All(ords) or None).
BadTemplate == [parses |-> FALSE, req |-> "None", ords |-> {}]
Template(k, o) == [parses |-> TRUE, req |-> k, ords |-> o]
Templates ==
    { BadTemplate, Template("None", {}) }
      \cup { Template(k, o) : k \in { "Any", "All" }, o \in (SUBSET Ords) \ { {} } }

\* template_front: every list of at most MaxTemplates templates.
TemplateLists == UNION { [1..n -> Templates] : n \in 0..MaxTemplates }

\* The lists enumerating the set s, each element once.
Orders(s) ==
    { f \in [1..Cardinality(s) -> s] :
        \A i, j \in 1..Cardinality(s) : i # j => f[i] # f[j] }

\* ords_hash_to_set: `ords.iter().map(..).collect()` lists the HashSet in its
\* iteration order, which depends on the set's RandomState and is any order
\* of the elements; `*ord as u32` widens the u16 and keeps its value.
ords_hash_to_set(ords) == Orders(ords)

\* pb::TemplateRequirement for one template: the values the closure in
\* template_requirements can produce.
TemplateRequirement(template) ==
    IF template.parses
    THEN CASE template.req = "Any" ->
                { [value |-> "Any", ords |-> o] : o \in ords_hash_to_set(template.ords) }
           [] template.req = "All" ->
                { [value |-> "All", ords |-> o] : o \in ords_hash_to_set(template.ords) }
           [] OTHER -> { [value |-> "None", ords |-> <<>>] }
    ELSE { [value |-> "None", ords |-> <<>>] }

\* Every list holding, at each index, one of the values of the sets in vs.
Collect(vs) ==
    { out \in [1..Len(vs) -> UNION { vs[i] : i \in 1..Len(vs) }] :
        \A i \in 1..Len(vs) : out[i] \in vs[i] }

\* template_requirements that propagates a parse failure with `?`: one
\* unparseable template fails the whole request.
template_requirements_abort(input) ==
    IF \E i \in 1..Len(input) : ~input[i].parses
    THEN { Err("TemplateError", "-") }
    ELSE { OkData("TemplateRequirements", out) :
             out \in Collect([i \in 1..Len(input) |-> TemplateRequirement(input[i])]) }

\* template_requirements: each template is mapped to its requirement, a
\* parse failure to Value::None, and the list is collected in input order.
template_requirements(input) ==
    { OkData("TemplateRequirements", out) :
        out \in Collect([i \in 1..Len(input) |-> TemplateRequirement(input[i])]) }

\* -------------------------------------------------------------------- cards
\* Rust's `as` casts to a narrower integer: the value modulo 2^8 or 2^16,
\* read as signed for i8.
as_u8(x) == x % 256
as_u16(x) == x % 65536
as_i8(x) == IF x % 256 >= 128 THEN (x % 256) - 256 ELSE x % 256

\* The discriminants CardType::try_from and CardQueue::try_from accept.
CardTypes == 0..3
CardQueues == (-3)..4

\* pb::Card, with the fields the conversions treat differently: id and nid
\* (i64 newtypes), ord and factor (u32 on the wire, u16 in Card), ctype (u32,
\* checked as u8), queue (i32, checked as i8), flags (u32, u8 in Card) and
\* due (copied; so are mtime, usn, ivl, reps, lapses, left, odue, odid, data).
GoodCard ==
    [id |-> 0, nid |-> 1, ord |-> 0, ctype |-> 0, queue |-> 0, due |-> 0,
     factor |-> 2500, flags |-> 0]
\* A card type no CardType has, and one that is a CardType only modulo 2^8.
BadTypeCard == [GoodCard EXCEPT !.ctype = 4]
WrappedTypeCard == [GoodCard EXCEPT !.ctype = 256]
\* A queue no CardQueue has, a suspended card, and a template ordinal that
\* does not fit 16 bits.
BadQueueCard == [GoodCard EXCEPT !.queue = 5]
SuspendedCard == [GoodCard EXCEPT !.queue = -1, !.ctype = 2]
WideOrdCard == [GoodCard EXCEPT !.ord = 65536]
\* The first stored card, rescheduled.
DueCard == [GoodCard EXCEPT !.id = 1, !.due = 1]

PbCards ==
    { GoodCard, BadTypeCard, WrappedTypeCard, BadQueueCard, SuspendedCard,
      WideOrdCard }

\* card_to_pb: every field widened or copied.
card_to_pb(c) ==
    [id |-> c.id, nid |-> c.nid, ord |-> c.ord, ctype |-> c.ctype,
     queue |-> c.queue, due |-> c.due, factor |-> c.factor, flags |-> c.flags]

\* pbcard_to_native: invalid-input when `c.ctype as u8` is no CardType or
\* `c.queue as i8` is no CardQueue; else the Card, ord and factor cast to u16
\* and flags to u8.
pbcard_to_native(c) ==
    IF as_u8(c.ctype) \notin CardTypes \/ as_i8(c.queue) \notin CardQueues
    THEN Err("InvalidInput", "-")
    ELSE OkData("Card",
           << [id |-> c.id, nid |-> c.nid, ord |-> as_u16(c.ord),
               ctype |-> as_u8(c.ctype), queue |-> as_i8(c.queue), due |-> c.due,
               factor |-> as_u16(c.factor), flags |-> as_u8(c.flags)] >>)

\* ------------------------------------------------------------------ storage
\* The persisted state behind a collection path: the cards table (a card's
\* id is its index) and, for each media file name, whether the file is
\* absent, stored (in the folder and in the media database), orphan (in the
\* folder only) or trashed.
MediaFiles == { "a.jpg" }
NoDisk == [cards |-> <<>>, media |-> [f \in MediaFiles |-> "absent"]]

\* An outcome of an operation on the persisted state: its result and the
\* state it leaves.
Outcome(r, d) == [r |-> r, d |-> d]

\* Collection::transact: the operation's writes are committed when it
\* succeeds and rolled back when it fails.
transact(d, o) == IF o.r.tag = "Ok" THEN o ELSE Outcome(o.r, d)

\* ctx.add_card: the card is stored under a new id, which is written back
\* into it; a storage failure can come before or after the row is written.
add_card(d, card) ==
    LET id == Len(d.cards) + 1
        stored == [d EXCEPT !.cards = Append(@, [card EXCEPT !.id = id])]
    IN  { Outcome(Err("DBError", "-"), d) }
          \cup IF Len(d.cards) < MaxCards
               THEN { Outcome(OkData("AddCard", <<id>>), stored),
                      Outcome(Err("DBError", "-"), stored) }
               ELSE {}

\* ctx.update_card: the row with the card's id is overwritten (no row, no
\* change).
update_card(d, card) ==
    LET stored == IF card.id \in 1..Len(d.cards)
                  THEN [d EXCEPT !.cards[card.id] = card]
                  ELSE d
    IN  { Outcome(Ok("UpdateCard"), stored),
          Outcome(Err("DBError", "-"), stored),
          Outcome(Err("DBError", "-"), d) }

\* ctx.storage.get_card: Option<Card>, as a list of at most one card.
get_card(d, cid) ==
    IF cid \in 1..Len(d.cards) THEN << d.cards[cid] >> ELSE <<>>

\* MediaManager::add_file: the data is written into the media folder, then
\* the file is recorded in the media database.
add_file(d, f) ==
    { Outcome(Err("IOError", "-"), d),
      Outcome(Err("DBError", "-"),
              IF d.media[f] = "absent" THEN [d EXCEPT !.media[f] = "orphan"] ELSE d),
      Outcome(Ok("AddMediaFile"),
              IF d.media[f] \in { "absent", "orphan" }
              THEN [d EXCEPT !.media[f] = "stored"]
              ELSE d) }

\* MediaManager::remove_files: each named file that is in the folder is moved
\* to the trash, then the media database is updated.
remove_files(d, fnames) ==
    LET trashed ==
          [d EXCEPT !.media =
             [f \in MediaFiles |->
                IF (\E i \in 1..Len(fnames) : fnames[i] = f)
                     /\ d.media[f] \in { "stored", "orphan" }
                THEN "trashed"
                ELSE d.media[f]]]
    IN  { Outcome(Err("IOError", "-"), d),
          Outcome(Err("DBError", "-"), trashed),
          Outcome(Ok("TrashMediaFiles"), trashed) }

\* MediaChecker::check, empty_trash and restore_trash, as the state they
\* leave when they succeed.
checker(d, ival) ==
    CASE ival = "EmptyTrash" ->
            [d EXCEPT !.media =
               [f \in MediaFiles |->
                  IF d.media[f] = "trashed" THEN "absent" ELSE d.media[f]]]
      [] ival = "RestoreTrash" ->
            [d EXCEPT !.media =
               [f \in MediaFiles |->
                  IF d.media[f] = "trashed" THEN "stored" ELSE d.media[f]]]
      [] OTHER -> d

\* ----------------------------------------------------------------- requests
\* The arguments of a request the model follows, as a list: the front
\* templates of a template-requirements request, the pb::Card of add-card and
\* update-card, the id of get-card, the file names of add-media-file and
\* trash-media-files; empty for the other requests.
Args(buf) ==
    CASE buf = "TemplateRequirements" ->
            { <<>>, <<BadTemplate, Template("Any", Ords)>> }
      [] buf = "AddCard" -> { <<GoodCard>>, <<BadTypeCard>> }
      [] buf = "UpdateCard" -> { <<DueCard>>, <<BadTypeCard>> }
      [] buf = "GetCard" -> { <<1>> }
      [] buf = "AddMediaFile" -> { <<f>> : f \in MediaFiles }
      [] buf = "TrashMediaFiles" -> { <<f>> : f \in MediaFiles }
      [] OTHER -> { <<>> }

\* Option<Collection>: None, or a handle with its identity and busy flag.
None == [some |-> FALSE, id |-> 0, media_sync_running |-> FALSE]
Handle(n) == [some |-> TRUE, id |-> n, media_sync_running |-> FALSE]

\* ------------------------------------------------------------- translator
\* err::NetworkErrorKind and err::SyncErrorKind, the internal subtypes.
NetworkErrorKinds == { "Offline", "Timeout", "ProxyAuth", "Other" }
SyncErrorKinds ==
    { "Conflict", "ServerError", "ClientTooOld", "AuthFailed", "ServerMessage",
      "ResyncRequired", "Other" }

\* AnkiError: every kind, network and sync failures with each subtype.
AnkiErrors ==
    { Err(e, "-") : e \in { "InvalidInput", "TemplateError", "IOError", "DBError",
                            "Interrupted", "CollectionNotOpen",
                            "CollectionAlreadyOpen" } }
      \cup { Err("NetworkError", k) : k \in NetworkErrorKinds }
      \cup { Err("SyncError", k) : k \in SyncErrorKinds }

\* The subtype on the wire: a variant of pb::network_error::NetworkErrorKind or
\* of pb::sync_error::SyncErrorKind; NoKind for errors that carry none.
WireKind(enum, variant) == [enum |-> enum, variant |-> variant]
NoKind == WireKind("-", "-")

\* From<NetworkErrorKind> for i32 with two arms exchanged: an offline failure
\* goes out as a timeout.
NetworkErrorKind_into_swapped(e) ==
    CASE e = "Offline" -> WireKind("network_error", "Timeout")
      [] e = "Timeout" -> WireKind("network_error", "Timeout")
      [] e = "ProxyAuth" -> WireKind("network_error", "ProxyAuth")
      [] e = "Other" -> WireKind("network_error", "Other")

\* From<NetworkErrorKind> for i32: the pb::network_error::NetworkErrorKind
\* variant whose number goes on the wire.
NetworkErrorKind_into(e) ==
    CASE e = "Offline" -> WireKind("network_error", "Offline")
      [] e = "Timeout" -> WireKind("network_error", "Timeout")
      [] e = "ProxyAuth" -> WireKind("network_error", "ProxyAuth")
      [] e = "Other" -> WireKind("network_error", "Other")

\* From<SyncErrorKind> for i32: the pb::sync_error::SyncErrorKind variant.
SyncErrorKind_into(e) ==
    CASE e = "Conflict" -> WireKind("sync_error", "Conflict")
      [] e = "ServerError" -> WireKind("sync_error", "ServerError")
      [] e = "ClientTooOld" -> WireKind("sync_error", "ClientTooOld")
      [] e = "AuthFailed" -> WireKind("sync_error", "AuthFailed")
      [] e = "ServerMessage" -> WireKind("sync_error", "ServerMessage")
      [] e = "ResyncRequired" -> WireKind("sync_error", "ResyncRequired")
      [] e = "Other" -> WireKind("sync_error", "Other")

\* anki_error_to_proto_error: the wire error value of an internal error
\* (pb::BackendError.value is always Some), with the subtype it carries.
anki_error_to_proto_error(err) ==
    CASE err.val = "InvalidInput" -> [value |-> "InvalidInput", kind |-> NoKind]
      [] err.val = "TemplateError" -> [value |-> "TemplateParse", kind |-> NoKind]
      [] err.val = "IOError" -> [value |-> "IoError", kind |-> NoKind]
      [] err.val = "DBError" -> [value |-> "DbError", kind |-> NoKind]
      [] err.val = "NetworkError" ->
            [value |-> "NetworkError", kind |-> NetworkErrorKind_into(err.kind)]
      [] err.val = "SyncError" ->
            [value |-> "SyncError", kind |-> SyncErrorKind_into(err.kind)]
      [] err.val = "Interrupted" -> [value |-> "Interrupted", kind |-> NoKind]
      [] err.val = "CollectionNotOpen" -> [value |-> "InvalidInput", kind |-> NoKind]
      [] err.val = "CollectionAlreadyOpen" -> [value |-> "InvalidInput", kind |-> NoKind]

\* pb::BackendOutput: a typed result, or a translated error; NoOutput when
\* the call unwound and produced no bytes.
OutputValue(v, d) == [out |-> "Value", value |-> v, kind |-> NoKind, data |-> d]
OutputError(e) ==
    [out |-> "Error", value |-> e.value, kind |-> e.kind, data |-> <<>>]
NoOutput == [out |-> "None", value |-> "-", kind |-> NoKind, data |-> <<>>]

\* run_command: result of run_command_inner to the response envelope.
run_command(r) ==
    CASE r.tag = "Ok" -> OutputValue(r.val, r.data)
      [] r.tag = "Err" -> OutputError(anki_error_to_proto_error(r))
      [] OTHER -> NoOutput

\* ------------------------------------------------------------------ state
VARIABLES
    col,                \* Backend.col: the Option<Collection> inside the mutex
    lock,               \* the mutex: 0 when free, else the caller holding it
    poisoned,           \* the mutex's poison flag
    opened,             \* handles constructed so far (identity of the next)
    progress_callback,  \* Backend.progress_callback: "None" or "Some"
    disk,               \* the persisted state behind the collection's paths
    pc,                 \* each caller's position
    req,                \* each caller's request: [buf, arg]
    result,             \* what run_command_inner returned to the caller
    resp,               \* the response envelope run_command_bytes returned
    res,                \* sync_media: the local `res` of sync_media_inner
    sent,               \* progress snapshots delivered by the running operation
    cont,               \* last value fire_progress_callback returned
    hist,               \* per call: handler run, lock acquisitions, busy marks
                        \* and clears, construction collaborators invoked,
                        \* whether the host's delivery function returned false
    before              \* per call: the guard as the call's last step found it

shared == <<col, lock, poisoned, opened, progress_callback, disk>>
local == <<pc, req, result, resp, res, sent, cont, hist, before>>
vars == <<col, lock, poisoned, opened, progress_callback, disk,
          pc, req, result, resp, res, sent, cont, hist, before>>

NoReq == [buf |-> "-", arg |-> <<>>]
NoHist ==
    [ran |-> "-", locks |-> 0, marked |-> 0, clears |-> 0, collab |-> {},
     cancelled |-> FALSE]
\* The guard: the Option<Collection>, the mutex and its poison flag, with
\* the persisted state the collection stands for.
Guard == [col |-> col, lock |-> lock, poisoned |-> poisoned, disk |-> disk]
NoGuard == [col |-> None, lock |-> 0, poisoned |-> FALSE, disk |-> NoDisk]

Init ==
    /\ col = None
    /\ lock = 0
    /\ poisoned = FALSE
    /\ opened = 0
    /\ progress_callback = "None"
    /\ disk = NoDisk
    /\ pc = [t \in Callers |-> "idle"]
    /\ req = [t \in Callers |-> NoReq]
    /\ result = [t \in Callers |-> NoResult]
    /\ resp = [t \in Callers |-> NoOutput]
    /\ res = [t \in Callers |-> NoResult]
    /\ sent = [t \in Callers |-> 0]
    /\ cont = [t \in Callers |-> TRUE]
    /\ hist = [t \in Callers |-> NoHist]
    /\ before = [t \in Callers |-> NoGuard]

\* The call of caller t ends with result r: run_command translates and
\* run_command_bytes encodes it (a panic unwinds through both).
Finish(t, r) ==
    /\ pc' = [pc EXCEPT ![t] = "done"]
    /\ result' = [result EXCEPT ![t] = r]
    /\ resp' = [resp EXCEPT ![t] = run_command(r)]
    /\ before' = [before EXCEPT ![t] = Guard]


\* The caller's call record with one field changed.
Note(t, field, v) == [hist EXCEPT ![t] = [@ EXCEPT ![field] = v]]

\* ------------------------------------------------------------- dispatcher
\* decode with the failure cases lost: bytes that do not parse, or that carry
\* no inner value, come out as a check-media request.
decode_lenient(buf) ==
    [ok |-> TRUE, value |-> IF buf \in { "Garbage", "Absent" } THEN "CheckMedia" ELSE buf]

\* pb::BackendInput::decode: the bytes do not parse, or they parse to an
\* envelope whose inner value is present ("-" stands for an absent value).
decode(buf) ==
    IF buf = "Garbage"
    THEN [ok |-> FALSE, value |-> "-"]
    ELSE [ok |-> TRUE, value |-> IF buf = "Absent" THEN "-" ELSE buf]

\* The arms of run_command_inner that finish without the guard: the results
\* the arm can produce ({} when the handler goes on to the guard).
Immediate(ival, arg) ==
    CASE ival = "DeckTree" -> { Panic }
      [] ival = "TemplateRequirements" -> template_requirements(arg)
      [] ival = "RenderCard" -> { Ok(ival), Err("TemplateError", "-") }
      [] ival \in Stateless \ { "TemplateRequirements", "RenderCard" } -> { Ok(ival) }
      [] ival \in CardIn /\ pbcard_to_native(arg[1]).tag = "Err" ->
            { pbcard_to_native(arg[1]) }
      [] OTHER -> {}

\* The first position of a handler that uses the guard.
Entry(ival) ==
    CASE ival \in WithCol -> "with_col"
      [] ival = "SyncMedia" -> "sync_media"
      [] ival = "OpenCollection" -> "open_collection"
      [] ival = "CloseCollection" -> "close_collection"

\* run_command_inner up to the handler's first use of the guard.
run_command_inner(t, ival, arg) ==
    /\ hist' = Note(t, "ran", ival)
    /\ IF Immediate(ival, arg) # {}
       THEN \E r \in Immediate(ival, arg) : Finish(t, r)
       ELSE /\ pc' = [pc EXCEPT ![t] = Entry(ival)]
            /\ UNCHANGED <<result, resp, before>>

\* run_command_bytes on the request bytes buf (with argument arg): decode the
\* buffer, run the command, encode the reply.
run_command_bytes(t, buf, arg) ==
    /\ pc[t] = "idle"
    /\ req' = [req EXCEPT ![t] = [buf |-> buf, arg |-> arg]]
    /\ IF ~decode(buf).ok
       THEN Finish(t, InvalidInput) /\ UNCHANGED hist
       ELSE IF decode(buf).value = "-"
       THEN Finish(t, InvalidInput) /\ UNCHANGED hist
       ELSE run_command_inner(t, decode(buf).value, arg)
    /\ UNCHANGED <<shared, res, sent, cont>>

\* The host reads the reply; the caller is free to issue its next request.
Return(t) ==
    /\ pc[t] = "done"
    /\ pc' = [pc EXCEPT ![t] = "idle"]
    /\ req' = [req EXCEPT ![t] = NoReq]
    /\ result' = [result EXCEPT ![t] = NoResult]
    /\ resp' = [resp EXCEPT ![t] = NoOutput]
    /\ res' = [res EXCEPT ![t] = NoResult]
    /\ sent' = [sent EXCEPT ![t] = 0]
    /\ cont' = [cont EXCEPT ![t] = TRUE]
    /\ hist' = [hist EXCEPT ![t] = NoHist]
    /\ before' = [before EXCEPT ![t] = NoGuard]
    /\ UNCHANGED shared

\* set_progress_callback(&mut self): the host installs or removes the
\* delivery function while no call is running.
set_progress_callback(cb) ==
    /\ \A t \in Callers : pc[t] = "idle"
    /\ progress_callback # cb
    /\ progress_callback' = cb
    /\ UNCHANGED <<col, lock, poisoned, opened, disk, local>>

\* ------------------------------------------------------------------ guard
\* lock() that returns without waiting for the holder to release the mutex.
Acquire_nowait(t, from, to) ==
    /\ pc[t] = from
    /\ IF poisoned
       THEN Finish(t, Panic) /\ UNCHANGED <<lock, hist>>
       ELSE /\ lock' = t
            /\ pc' = [pc EXCEPT ![t] = to]
            /\ hist' = Note(t, "locks", hist[t].locks + 1)
            /\ UNCHANGED <<result, resp, before>>
    /\ UNCHANGED <<col, poisoned, opened, progress_callback, disk, req, res, sent, cont>>

\* self.col.lock().unwrap(): block until the mutex is free; a poisoned
\* mutex makes the unwrap panic (the guard inside the error is dropped).
Acquire(t, from, to) ==
    /\ pc[t] = from
    /\ lock = 0
    /\ IF poisoned
       THEN Finish(t, Panic) /\ UNCHANGED <<lock, hist>>
       ELSE /\ lock' = t
            /\ pc' = [pc EXCEPT ![t] = to]
            /\ hist' = Note(t, "locks", hist[t].locks + 1)
            /\ UNCHANGED <<result, resp, before>>
    /\ UNCHANGED <<col, poisoned, opened, progress_callback, disk, req, res, sent, cont>>

open_collection_lock(t) == Acquire(t, "open_collection", "open_locked")

\* open_collection that installs the handle before the storage is opened, so
\* a construction failure leaves a handle behind.
open_collection_early(t) ==
    /\ pc[t] = "open_locked"
    /\ lock' = 0
    /\ \/ /\ col.some
          /\ Finish(t, CollectionAlreadyOpen)
          /\ UNCHANGED <<col, opened, hist>>
       \/ /\ ~col.some
          /\ Finish(t, Err("IOError", "-"))
          /\ hist' = Note(t, "collab", { "default_logger" })
          /\ UNCHANGED <<col, opened>>
       \/ /\ ~col.some
          /\ opened < MaxOpens
          /\ col' = Handle(opened + 1)
          /\ opened' = opened + 1
          /\ \E r \in { Ok("OpenCollection"), Err("DBError", "-") } : Finish(t, r)
          /\ hist' = Note(t, "collab", { "default_logger", "open_collection" })
    /\ UNCHANGED <<poisoned, progress_callback, disk, req, res, sent, cont>>

\* open_collection without the is_some check: an open on an open engine
\* constructs a new handle and puts it in place of the installed one.
open_collection_replaces(t) ==
    /\ pc[t] = "open_locked"
    /\ lock' = 0
    /\ \/ /\ col.some
          /\ opened >= MaxOpens
          /\ Finish(t, CollectionAlreadyOpen)
          /\ UNCHANGED <<col, opened, hist>>
       \/ /\ Finish(t, Err("IOError", "-"))
          /\ hist' = Note(t, "collab", { "default_logger" })
          /\ UNCHANGED <<col, opened>>
       \/ /\ Finish(t, Err("DBError", "-"))
          /\ hist' = Note(t, "collab", { "default_logger", "open_collection" })
          /\ UNCHANGED <<col, opened>>
       \/ /\ opened < MaxOpens
          /\ col' = Handle(opened + 1)
          /\ opened' = opened + 1
          /\ Finish(t, Ok("OpenCollection"))
          /\ hist' = Note(t, "collab", { "default_logger", "open_collection" })
    /\ UNCHANGED <<poisoned, progress_callback, disk, req, res, sent, cont>>

\* open_collection after `let mut col = self.col.lock().unwrap()`.
open_collection(t) ==
    /\ pc[t] = "open_locked"
    /\ lock' = 0
    /\ \/ /\ col.some
          /\ Finish(t, CollectionAlreadyOpen)
          /\ UNCHANGED <<col, opened, hist>>
       \/ /\ ~col.some
          /\ Finish(t, Err("IOError", "-"))
          /\ hist' = Note(t, "collab", { "default_logger" })
          /\ UNCHANGED <<col, opened>>
       \/ /\ ~col.some
          /\ Finish(t, Err("DBError", "-"))
          /\ hist' = Note(t, "collab", { "default_logger", "open_collection" })
          /\ UNCHANGED <<col, opened>>
       \/ /\ ~col.some
          /\ opened < MaxOpens
          /\ col' = Handle(opened + 1)
          /\ opened' = opened + 1
          /\ Finish(t, Ok("OpenCollection"))
          /\ hist' = Note(t, "collab", { "default_logger", "open_collection" })
    /\ UNCHANGED <<poisoned, progress_callback, disk, req, res, sent, cont>>

\* Collection::can_close: closing is unsafe while a media sync has not been
\* finalised.
can_close(c) == ~c.media_sync_running

close_collection_lock(t) == Acquire(t, "close_collection", "close_locked")

\* close_collection without the is_none check: closing a closed engine
\* succeeds.
close_collection_unchecked(t) ==
    /\ pc[t] = "close_locked"
    /\ lock' = 0
    /\ IF col.some /\ ~can_close(col)
       THEN Finish(t, InvalidInput) /\ UNCHANGED col
       ELSE col' = None /\ Finish(t, Ok("CloseCollection"))
    /\ UNCHANGED <<poisoned, opened, progress_callback, disk, req, res, sent, cont, hist>>

\* close_collection without the can_close check: the handle is dropped even
\* when it reports that closing is unsafe.
close_collection_forced(t) ==
    /\ pc[t] = "close_locked"
    /\ lock' = 0
    /\ IF ~col.some
       THEN Finish(t, CollectionNotOpen) /\ UNCHANGED col
       ELSE col' = None /\ Finish(t, Ok("CloseCollection"))
    /\ UNCHANGED <<poisoned, opened, progress_callback, disk, req, res, sent, cont, hist>>

\* close_collection after `let mut col = self.col.lock().unwrap()`.
close_collection(t) ==
    /\ pc[t] = "close_locked"
    /\ lock' = 0
    /\ IF ~col.some
       THEN Finish(t, CollectionNotOpen) /\ UNCHANGED col
       ELSE IF ~can_close(col)
       THEN Finish(t, InvalidInput) /\ UNCHANGED col
       ELSE col' = None /\ Finish(t, Ok("CloseCollection"))
    /\ UNCHANGED <<poisoned, opened, progress_callback, disk, req, res, sent, cont, hist>>


\* --------------------------------------------------------------- progress
\* fire_progress_callback whose else branch returns false: with no delivery
\* function installed every snapshot asks the operation to stop.
fire_progress_callback_default_stop(t, at, cb) ==
    /\ pc[t] = at
    /\ cont[t]
    /\ sent[t] < MaxProgress
    /\ IF progress_callback = "None"
       THEN /\ sent' = [sent EXCEPT ![t] = sent[t] + 1]
            /\ cont' = [cont EXCEPT ![t] = FALSE]
            /\ UNCHANGED pc
       ELSE /\ pc' = [pc EXCEPT ![t] = cb]
            /\ UNCHANGED <<sent, cont>>
    /\ UNCHANGED <<shared, req, result, resp, before, res, hist>>

\* fire_progress_callback at position `at`: with no delivery function it
\* returns true at once; otherwise the host function runs (position `cb`)
\* until the host returns.
fire_progress_callback(t, at, cb) ==
    /\ pc[t] = at
    /\ cont[t]
    /\ sent[t] < MaxProgress
    /\ IF progress_callback = "None"
       THEN /\ sent' = [sent EXCEPT ![t] = sent[t] + 1]
            /\ cont' = [cont EXCEPT ![t] = TRUE]
            /\ UNCHANGED pc
       ELSE /\ pc' = [pc EXCEPT ![t] = cb]
            /\ UNCHANGED <<sent, cont>>
    /\ UNCHANGED <<shared, req, result, resp, before, res, hist>>

\* Cooperative cancellation: an operation whose delivery function returned
\* false ends at its next checkpoint with interrupted instead of its result r.
checkpoint(go, r) == IF go THEN r ELSE Interrupted

\* The host's delivery function returns b to the operation at `at`.
callback_returns(t, cb, at) ==
    /\ pc[t] = cb
    /\ \E b \in BOOLEAN :
          /\ cont' = [cont EXCEPT ![t] = b]
          /\ hist' = Note(t, "cancelled", hist[t].cancelled \/ ~b)
    /\ sent' = [sent EXCEPT ![t] = sent[t] + 1]
    /\ pc' = [pc EXCEPT ![t] = at]
    /\ UNCHANGED <<shared, req, result, resp, before, res>>

\* --------------------------------------------------------------- with_col
\* Errors the collaborator behind each with_col closure can return.
FuncErrors(ival) ==
    CASE ival \in { "AddMediaFile", "TrashMediaFiles" } ->
            { Err("IOError", "-"), Err("DBError", "-") }
      [] ival \in { "SearchCards", "SearchNotes" } ->
            { InvalidInput, Err("DBError", "-") }
      [] OTHER -> { Err("DBError", "-") }

\* The closure a handler passes to with_col, run on the open handle: the
\* results it can return with the persisted state each leaves.  add_card and
\* update_card run inside col.transact; add_media_file and remove_media_files
\* use the MediaManager's own context, outside any transaction.
Closure(ival, arg, d) ==
    CASE ival = "AddCard" ->
            { transact(d, o) : o \in add_card(d, pbcard_to_native(arg[1]).data[1]) }
      [] ival = "UpdateCard" ->
            { transact(d, o) : o \in update_card(d, pbcard_to_native(arg[1]).data[1]) }
      [] ival = "GetCard" ->
            { Outcome(OkData("GetCard",
                             IF get_card(d, arg[1]) = <<>>
                             THEN <<>>
                             ELSE << card_to_pb(get_card(d, arg[1])[1]) >>), d) }
              \cup { Outcome(r, d) : r \in FuncErrors(ival) }
      [] ival = "AddMediaFile" ->
            { Outcome(r, d) : r \in FuncErrors(ival) } \cup add_file(d, arg[1])
      [] ival = "TrashMediaFiles" ->
            { Outcome(r, d) : r \in FuncErrors(ival) } \cup remove_files(d, arg)
      [] OTHER ->
            { Outcome(r, d) : r \in { Ok(ival) } \cup FuncErrors(ival) }

with_col_lock(t) == Acquire(t, "with_col", "func")

\* with_col once the mutex is held: not-open when the Option is None, else
\* the closure runs on the handle.  The closures of check_media, empty_trash
\* and restore_trash build a MediaManager and then run a MediaChecker, which
\* keeps the guard until it ends.
with_col(t) ==
    /\ pc[t] = "func"
    /\ IF ~col.some
       THEN Finish(t, CollectionNotOpen) /\ lock' = 0 /\ UNCHANGED disk
       ELSE IF req[t].buf \in Checkers
       THEN \/ Finish(t, Err("IOError", "-")) /\ lock' = 0 /\ UNCHANGED disk
            \/ /\ pc' = [pc EXCEPT ![t] = "checker"]
               /\ UNCHANGED <<lock, result, resp, before, disk>>
       ELSE /\ \E o \in Closure(req[t].buf, req[t].arg, disk) :
                 Finish(t, o.r) /\ disk' = o.d
            /\ lock' = 0
    /\ UNCHANGED <<col, poisoned, opened, progress_callback, req, res, sent, cont, hist>>

\* A progress delivery that goes through with_col: the MediaChecker, which
\* runs inside with_col's closure, asks for the mutex it already holds.
checker_progress_reentrant(t) ==
    /\ pc[t] = "checker"
    /\ cont[t]
    /\ sent[t] < MaxProgress
    /\ pc' = [pc EXCEPT ![t] = "with_col"]
    /\ UNCHANGED <<shared, req, result, resp, before, res, sent, cont, hist>>

\* MediaChecker delivering a progress snapshot while the guard is held.
checker_progress(t) == fire_progress_callback(t, "checker", "checker_cb")

checker_callback_returns(t) == callback_returns(t, "checker_cb", "checker")

\* The MediaChecker ends: interrupted when the delivery function asked to
\* stop, else its own result; col.transact commits what it did when it
\* succeeded; with_col's guard is dropped on return.
checker_ends(t) ==
    /\ pc[t] = "checker"
    /\ lock' = 0
    /\ \E r \in { Ok(req[t].buf), Err("DBError", "-") } :
          LET o == transact(disk, Outcome(checkpoint(cont[t], r),
                                          checker(disk, req[t].buf)))
          IN  Finish(t, o.r) /\ disk' = o.d
    /\ sent' = [sent EXCEPT ![t] = 0]
    /\ cont' = [cont EXCEPT ![t] = TRUE]
    /\ UNCHANGED <<col, poisoned, opened, progress_callback, req, res, hist>>

\* ------------------------------------------------------------- sync_media
\* Collection::set_media_sync_running: mark the handle busy, or fail when it
\* already is.
set_media_sync_running(c) ==
    IF c.media_sync_running
    THEN [r |-> InvalidInput, c |-> c]
    ELSE [r |-> Ok("-"), c |-> [c EXCEPT !.media_sync_running = TRUE]]

\* Collection::set_media_sync_finished: clear the busy mark, or fail when the
\* handle is not marked.
set_media_sync_finished(c) ==
    IF c.media_sync_running
    THEN [r |-> Ok("-"), c |-> [c EXCEPT !.media_sync_running = FALSE]]
    ELSE [r |-> InvalidInput, c |-> c]

sync_media_lock(t) == Acquire(t, "sync_media", "sync_media_locked")

\* sync_media without `drop(guard)`: the guard stays alive while
\* sync_media_inner runs.
sync_media_no_drop(t) ==
    /\ pc[t] = "sync_media_locked"
    /\ IF ~col.some
       THEN /\ Finish(t, Panic)
            /\ lock' = 0
            /\ poisoned' = TRUE
            /\ UNCHANGED <<col, hist>>
       ELSE IF set_media_sync_running(col).r.tag = "Err"
       THEN /\ Finish(t, set_media_sync_running(col).r)
            /\ lock' = 0
            /\ UNCHANGED <<col, poisoned, hist>>
       ELSE /\ col' = set_media_sync_running(col).c
            /\ hist' = Note(t, "marked", hist[t].marked + 1)
            /\ pc' = [pc EXCEPT ![t] = "sync_media_inner"]
            /\ UNCHANGED <<lock, poisoned, result, resp, before>>
    /\ UNCHANGED <<opened, progress_callback, disk, req, res, sent, cont>>

\* sync_media that discards the mark-busy step's error (as with
\* `let _ = col.set_media_sync_running();`): a call that finds the handle
\* busy goes on to the long operation and to the clear-busy step.
sync_media_mark_ignored(t) ==
    /\ pc[t] = "sync_media_locked"
    /\ lock' = 0
    /\ IF ~col.some
       THEN /\ Finish(t, Panic)
            /\ poisoned' = TRUE
            /\ UNCHANGED <<col, hist>>
       ELSE /\ col' = set_media_sync_running(col).c
            /\ hist' = IF set_media_sync_running(col).r.tag = "Err"
                       THEN hist
                       ELSE Note(t, "marked", hist[t].marked + 1)
            /\ pc' = [pc EXCEPT ![t] = "sync_media_inner"]
            /\ UNCHANGED <<poisoned, result, resp, before>>
    /\ UNCHANGED <<opened, progress_callback, disk, req, res, sent, cont>>

\* sync_media from `guard.as_mut().unwrap()` to `drop(guard)`: the unwrap
\* panics on None while the guard is alive, which poisons the mutex.
sync_media(t) ==
    /\ pc[t] = "sync_media_locked"
    /\ lock' = 0
    /\ IF ~col.some
       THEN /\ Finish(t, Panic)
            /\ poisoned' = TRUE
            /\ UNCHANGED <<col, hist>>
       ELSE IF set_media_sync_running(col).r.tag = "Err"
       THEN /\ Finish(t, set_media_sync_running(col).r)
            /\ UNCHANGED <<col, poisoned, hist>>
       ELSE /\ col' = set_media_sync_running(col).c
            /\ hist' = Note(t, "marked", hist[t].marked + 1)
            /\ pc' = [pc EXCEPT ![t] = "sync_media_inner"]
            /\ UNCHANGED <<poisoned, result, resp, before>>
    /\ UNCHANGED <<opened, progress_callback, disk, req, res, sent, cont>>

\* sync_media_inner whose early failure leaves sync_media at once (as with
\* `self.sync_media_inner(..)?`), skipping the clear-busy step.
sync_media_inner_early_return(t) ==
    /\ pc[t] = "sync_media_inner"
    /\ \/ /\ Finish(t, Err("DBError", "-"))
          /\ UNCHANGED res
       \/ /\ Finish(t, Panic)
          /\ UNCHANGED res
       \/ /\ pc' = [pc EXCEPT ![t] = "block_on"]
          /\ UNCHANGED <<res, result, resp, before>>
    /\ UNCHANGED <<shared, req, sent, cont, hist>>

\* sync_media_inner up to block_on: MediaManager::new can fail, and
\* Runtime::new().unwrap() panics when the runtime cannot be created.
sync_media_inner(t) ==
    /\ pc[t] = "sync_media_inner"
    /\ \/ /\ res' = [res EXCEPT ![t] = Err("DBError", "-")]
          /\ pc' = [pc EXCEPT ![t] = "sync_media_finish"]
          /\ UNCHANGED <<result, resp, before>>
       \/ /\ Finish(t, Panic)
          /\ UNCHANGED res
       \/ /\ pc' = [pc EXCEPT ![t] = "block_on"]
          /\ UNCHANGED <<res, result, resp, before>>
    /\ UNCHANGED <<shared, req, sent, cont, hist>>

\* The media syncer delivering a progress snapshot; the guard is not held.
sync_progress(t) == fire_progress_callback(t, "block_on", "block_on_cb")

sync_callback_returns(t) == callback_returns(t, "block_on_cb", "block_on")

\* Results of MediaManager::sync_media other than interruption.
SyncResults ==
    { Ok("-"), Err("NetworkError", "Timeout"), Err("SyncError", "AuthFailed") }

\* block_on whose error leaves sync_media at once (as with
\* `rt.block_on(..)?` propagated through `self.sync_media_inner(..)?`): a
\* failed or interrupted sync returns without clearing the busy flag.
block_on_error_returns(t) ==
    /\ pc[t] = "block_on"
    /\ \E r \in SyncResults :
          IF checkpoint(cont[t], r).tag = "Err"
          THEN Finish(t, checkpoint(cont[t], r)) /\ UNCHANGED res
          ELSE /\ res' = [res EXCEPT ![t] = r]
               /\ pc' = [pc EXCEPT ![t] = "sync_media_finish"]
               /\ UNCHANGED <<result, resp, before>>
    /\ sent' = [sent EXCEPT ![t] = 0]
    /\ cont' = [cont EXCEPT ![t] = TRUE]
    /\ UNCHANGED <<shared, req, hist>>

\* block_on returns: interrupted when the delivery function asked to stop.
\* The operation's progress counter and continue flag end with it.
block_on(t) ==
    /\ pc[t] = "block_on"
    /\ \E r \in SyncResults : res' = [res EXCEPT ![t] = checkpoint(cont[t], r)]
    /\ pc' = [pc EXCEPT ![t] = "sync_media_finish"]
    /\ sent' = [sent EXCEPT ![t] = 0]
    /\ cont' = [cont EXCEPT ![t] = TRUE]
    /\ UNCHANGED <<shared, req, result, resp, before, hist>>

sync_media_finish_lock(t) ==
    Acquire(t, "sync_media_finish", "sync_media_finish_locked")

\* sync_media that ends with `Ok(())` instead of `res`: the long operation's
\* error is lost once the busy flag is cleared.
sync_media_finish_drops_res(t) ==
    /\ pc[t] = "sync_media_finish_locked"
    /\ lock' = 0
    /\ IF ~col.some
       THEN Finish(t, CollectionNotOpen) /\ UNCHANGED <<col, hist>>
       ELSE IF set_media_sync_finished(col).r.tag = "Err"
       THEN Finish(t, set_media_sync_finished(col).r) /\ UNCHANGED <<col, hist>>
       ELSE /\ col' = set_media_sync_finished(col).c
            /\ hist' = Note(t, "clears", hist[t].clears + 1)
            /\ Finish(t, Ok("SyncMedia"))
    /\ UNCHANGED <<poisoned, opened, progress_callback, disk, req, res, sent, cont>>

\* `self.with_col(|col| col.set_media_sync_finished())?; res`
sync_media_finish(t) ==
    /\ pc[t] = "sync_media_finish_locked"
    /\ lock' = 0
    /\ IF ~col.some
       THEN Finish(t, CollectionNotOpen) /\ UNCHANGED <<col, hist>>
       ELSE IF set_media_sync_finished(col).r.tag = "Err"
       THEN Finish(t, set_media_sync_finished(col).r) /\ UNCHANGED <<col, hist>>
       ELSE /\ col' = set_media_sync_finished(col).c
            /\ hist' = Note(t, "clears", hist[t].clears + 1)
            /\ Finish(t, IF res[t].tag = "Ok" THEN Ok("SyncMedia") ELSE res[t])
    /\ UNCHANGED <<poisoned, opened, progress_callback, disk, req, res, sent, cont>>

\* ---------------------------------------------------------- specification
\* No reply is waiting to be read.  A finished call is handed back before the
\* engine's next step is looked at: Return changes only the returning caller's
\* own record, so every state of the guard and of the calls in progress is
\* still reached.  A state with a finished call is therefore the state right
\* after that call's last step, whose pre-state is in `before`.
Quiet == \A u \in Callers : pc[u] # "done"

Next ==
    \/ \E t \in Callers : Return(t)
    \/ \E cb \in { "None", "Some" } : set_progress_callback(cb)
    \/ \E t \in Callers : \E buf \in Buffers : \E arg \in Args(buf) :
          Quiet /\ run_command_bytes(t, buf, arg)
    \/ \E t \in Callers : Quiet /\ open_collection_lock(t)
    \/ \E t \in Callers : Quiet /\ open_collection(t)
    \/ \E t \in Callers : Quiet /\ close_collection_lock(t)
    \/ \E t \in Callers : Quiet /\ close_collection(t)
    \/ \E t \in Callers : Quiet /\ with_col_lock(t)
    \/ \E t \in Callers : Quiet /\ with_col(t)
    \/ \E t \in Callers : Quiet /\ checker_progress(t)
    \/ \E t \in Callers : Quiet /\ checker_callback_returns(t)
    \/ \E t \in Callers : Quiet /\ checker_ends(t)
    \/ \E t \in Callers : Quiet /\ sync_media_lock(t)
    \/ \E t \in Callers : Quiet /\ sync_media(t)
    \/ \E t \in Callers : Quiet /\ sync_media_inner(t)
    \/ \E t \in Callers : Quiet /\ sync_progress(t)
    \/ \E t \in Callers : Quiet /\ sync_callback_returns(t)
    \/ \E t \in Callers : Quiet /\ block_on(t)
    \/ \E t \in Callers : Quiet /\ sync_media_finish_lock(t)
    \/ \E t \in Callers : Quiet /\ sync_media_finish(t)

Spec == Init /\ [][Next]_vars

\* The engine driven by open-collection and close-collection requests only.
Lifecycle == { "OpenCollection", "CloseCollection" }

NextOpenClose ==
    \/ \E t \in Callers : Return(t)
    \/ \E t \in Callers : \E buf \in Lifecycle :
          Quiet /\ run_command_bytes(t, buf, <<>>)
    \/ \E t \in Callers : Quiet /\ open_collection_lock(t)
    \/ \E t \in Callers : Quiet /\ open_collection(t)
    \/ \E t \in Callers : Quiet /\ close_collection_lock(t)
    \/ \E t \in Callers : Quiet /\ close_collection(t)

SpecOpenClose == Init /\ [][NextOpenClose]_vars


\* The engine driven by media syncs interleaved with open-collection and
\* close-collection requests from any caller.
SyncLifecycle == { "OpenCollection", "CloseCollection", "SyncMedia" }

NextSync ==
    \/ \E t \in Callers : Return(t)
    \/ \E cb \in { "None", "Some" } : set_progress_callback(cb)
    \/ \E t \in Callers : \E buf \in SyncLifecycle :
          Quiet /\ run_command_bytes(t, buf, <<>>)
    \/ \E t \in Callers : Quiet /\ open_collection_lock(t)
    \/ \E t \in Callers : Quiet /\ open_collection(t)
    \/ \E t \in Callers : Quiet /\ close_collection_lock(t)
    \/ \E t \in Callers : Quiet /\ close_collection(t)
    \/ \E t \in Callers : Quiet /\ sync_media_lock(t)
    \/ \E t \in Callers : Quiet /\ sync_media(t)
    \/ \E t \in Callers : Quiet /\ sync_media_inner(t)
    \/ \E t \in Callers : Quiet /\ sync_progress(t)
    \/ \E t \in Callers : Quiet /\ sync_callback_returns(t)
    \/ \E t \in Callers : Quiet /\ block_on(t)
    \/ \E t \in Callers : Quiet /\ sync_media_finish_lock(t)
    \/ \E t \in Callers : Quiet /\ sync_media_finish(t)

SpecSync == Init /\ [][NextSync]_vars

\* Requests whose handlers take the mutex: open, close, media sync, a with_col
\* closure (get-card) and a with_col closure that delivers progress while it
\* holds the guard (check-media).
GuardUsers == SyncLifecycle \cup { "GetCard", "CheckMedia" }

\* One step of the call caller t has in progress, or the host reading its
\* reply.
Advance(t) ==
    \/ Return(t)
    \/ Quiet /\ open_collection_lock(t)
    \/ Quiet /\ open_collection(t)
    \/ Quiet /\ close_collection_lock(t)
    \/ Quiet /\ close_collection(t)
    \/ Quiet /\ with_col_lock(t)
    \/ Quiet /\ with_col(t)
    \/ Quiet /\ checker_progress(t)
    \/ Quiet /\ checker_callback_returns(t)
    \/ Quiet /\ checker_ends(t)
    \/ Quiet /\ sync_media_lock(t)
    \/ Quiet /\ sync_media(t)
    \/ Quiet /\ sync_media_inner(t)
    \/ Quiet /\ sync_progress(t)
    \/ Quiet /\ sync_callback_returns(t)
    \/ Quiet /\ block_on(t)
    \/ Quiet /\ sync_media_finish_lock(t)
    \/ Quiet /\ sync_media_finish(t)

NextFair ==
    \/ \E cb \in { "None", "Some" } : set_progress_callback(cb)
    \/ \E t \in Callers : \E buf \in GuardUsers : \E arg \in Args(buf) :
          Quiet /\ run_command_bytes(t, buf, arg)
    \/ \E t \in Callers : Advance(t)

\* The engine under fair scheduling: the host need not issue requests, but a
\* call in progress keeps taking steps (handler bodies, collaborators and the
\* host's delivery function return), and a caller blocked in lock() gets the
\* mutex if it is free again and again.
SpecFair ==
    Init /\ [][NextFair]_vars /\ \A t \in Callers : SF_vars(Advance(t))

\* The host issuing one call at a time: no call is in progress.
Sequential == \A u \in Callers : pc[u] \in { "idle", "done" }

\* Caller t holds the reply of a sync-media call during which the host's
\* delivery function returned false, and no other reply is outstanding.
InterruptedSync(t) ==
    /\ pc[t] = "done"
    /\ req[t].buf = "SyncMedia"
    /\ hist[t].cancelled
    /\ \A u \in Callers \ { t } : pc[u] = "idle"

\* The cancellation scenario: the host opens the collection and runs media
\* syncs one call at a time; once a sync during which its delivery function
\* returned false has replied, it issues a check-media call.
NextInterrupt ==
    \/ \E t \in Callers : ~InterruptedSync(t) /\ Return(t)
    \/ \E cb \in { "None", "Some" } : set_progress_callback(cb)
    \/ \E t \in Callers : \E buf \in { "OpenCollection", "SyncMedia" } :
          Sequential /\ Quiet /\ run_command_bytes(t, buf, <<>>)
    \/ \E t, u \in Callers :
          InterruptedSync(t) /\ run_command_bytes(u, "CheckMedia", <<>>)
    \/ \E t \in Callers : open_collection_lock(t)
    \/ \E t \in Callers : open_collection(t)
    \/ \E t \in Callers : with_col_lock(t)
    \/ \E t \in Callers : with_col(t)
    \/ \E t \in Callers : checker_progress(t)
    \/ \E t \in Callers : checker_callback_returns(t)
    \/ \E t \in Callers : checker_ends(t)
    \/ \E t \in Callers : sync_media_lock(t)
    \/ \E t \in Callers : sync_media(t)
    \/ \E t \in Callers : sync_media_inner(t)
    \/ \E t \in Callers : sync_progress(t)
    \/ \E t \in Callers : sync_callback_returns(t)
    \/ \E t \in Callers : block_on(t)
    \/ \E t \in Callers : sync_media_finish_lock(t)
    \/ \E t \in Callers : sync_media_finish(t)

SpecInterrupt == Init /\ [][NextInterrupt]_vars

\* No call is in progress and no reply is waiting to be read.
AllIdle == \A u \in Callers : pc[u] = "idle"

\* Caller t holds the reply of an add-card call that succeeded, and no other
\* call is in progress or unread.
StoredReply(t) ==
    /\ pc[t] = "done"
    /\ req[t].buf = "AddCard"
    /\ result[t].tag = "Ok"
    /\ \A u \in Callers \ { t } : pc[u] = "idle"

\* The open / add / read-back scenario: the host opens and closes the
\* collection, reads card 5 and adds cards, one call at a time; when an
\* add-card call has returned an id it reads the card with that id back
\* before it does anything else.
NextScenario ==
    \/ \E t \in Callers : ~StoredReply(t) /\ Return(t)
    \/ \E t \in Callers : \E buf \in Lifecycle :
          AllIdle /\ run_command_bytes(t, buf, <<>>)
    \/ \E t \in Callers : AllIdle /\ run_command_bytes(t, "GetCard", <<5>>)
    \/ \E t \in Callers : \E card \in PbCards :
          AllIdle /\ run_command_bytes(t, "AddCard", <<card>>)
    \/ \E t, u \in Callers :
          StoredReply(t) /\ run_command_bytes(u, "GetCard", result[t].data)
    \/ \E t \in Callers : open_collection_lock(t)
    \/ \E t \in Callers : open_collection(t)
    \/ \E t \in Callers : close_collection_lock(t)
    \/ \E t \in Callers : close_collection(t)
    \/ \E t \in Callers : with_col_lock(t)
    \/ \E t \in Callers : with_col(t)

SpecScenario == Init /\ [][NextScenario]_vars

\* Template-requirement analysis run repeatedly on one request: a call is
\* issued with the arguments of the replies the host has not read yet.
NextTemplates ==
    \/ \E t \in Callers : Return(t)
    \/ \E t \in Callers : \E arg \in TemplateLists :
          /\ \A u \in Callers : pc[u] = "done" => req[u].arg = arg
          /\ run_command_bytes(t, "TemplateRequirements", arg)

SpecTemplates == Init /\ [][NextTemplates]_vars

\* The translator applied to every internal error: each caller holds an error
\* its handler returned, and run_command turns it into the response.
InitTranslator ==
    /\ col = None
    /\ lock = 0
    /\ poisoned = FALSE
    /\ opened = 0
    /\ progress_callback = "None"
    /\ disk = NoDisk
    /\ pc = [t \in Callers |-> "run_command"]
    /\ req = [t \in Callers |-> NoReq]
    /\ result \in [Callers -> AnkiErrors]
    /\ resp = [t \in Callers |-> NoOutput]
    /\ res = [t \in Callers |-> NoResult]
    /\ sent = [t \in Callers |-> 0]
    /\ cont = [t \in Callers |-> TRUE]
    /\ hist = [t \in Callers |-> NoHist]
    /\ before = [t \in Callers |-> NoGuard]

\* run_command's Err arm on the error the caller holds.
translate(t) ==
    /\ pc[t] = "run_command"
    /\ Finish(t, result[t])
    /\ UNCHANGED <<shared, req, res, sent, cont, hist>>

NextTranslator == \E t \in Callers : translate(t)

SpecTranslator == InitTranslator /\ [][NextTranslator]_vars

\* ------------------------------------------------------------- properties
\* The call of caller t returns (or unwinds) in this step.
Completes(t) == pc[t] # "done" /\ pc'[t] = "done"

\* C1: in every run of open-collection and close-collection requests, an open
\* that finds a handle installed fails with already-open, and a close that
\* finds no handle installed (also before any open) fails with not-open.
C1_OpenCloseMisuse ==
    [][\A t \in Callers :
          Completes(t) =>
            /\ (req'[t].buf = "OpenCollection" /\ col.some
                  => result'[t] = CollectionAlreadyOpen)
            /\ (req'[t].buf = "CloseCollection" /\ ~col.some
                  => result'[t] = CollectionNotOpen)]_vars

\* A second open, issued while the handle of the first is installed, has
\* returned already-open.
C1_Witness ==
    \E t \in Callers :
        /\ pc[t] = "done"
        /\ req[t].buf = "OpenCollection"
        /\ result[t] = CollectionAlreadyOpen
        /\ col.some

\* Requests whose handler uses the collection.
NeedsCollection == WithCol \cup { "SyncMedia", "CloseCollection" }

\* C2 (for the requests whose handler uses the collection, sync-media among
\* them, with well-formed arguments): a request other than open-collection
\* that finishes while the guard is Closed returns collection-not-open.
C2_ClosedIsNotOpen ==
    [][\A t \in Callers :
          ( /\ Completes(t)
            /\ ~col.some
            /\ req'[t].buf \in NeedsCollection
            /\ (req'[t].buf \in CardIn => pbcard_to_native(req'[t].arg[1]).tag = "Ok") )
          => result'[t] = CollectionNotOpen]_vars

\* C3: every call that has ended has produced one well-formed response, a
\* typed result or a translated error; none has ended in a panic.
C3_AlwaysResponds ==
    \A t \in Callers : pc[t] = "done" => resp[t].out \in { "Value", "Error" }

\* C4: a buffer that does not decode, or that decodes to an envelope without
\* an inner value, is answered with invalid-input: no handler has run, the
\* guard was not acquired, and the guard's state is as the call found it.
C4_DecodeFailure ==
    \A t \in Callers :
        (pc[t] = "done" /\ req[t].buf \in { "Garbage", "Absent" }) =>
          /\ resp[t] = OutputError([value |-> "InvalidInput", kind |-> NoKind])
          /\ hist[t].ran = "-"
          /\ hist[t].locks = 0
          /\ Guard = before[t]

\* Undecodable bytes sent to an engine with an open collection were answered
\* with invalid-input, the collection still open.
C4_Witness ==
    \E t \in Callers :
        /\ pc[t] = "done"
        /\ req[t].buf = "Garbage"
        /\ resp[t].out = "Error"
        /\ resp[t].value = "InvalidInput"
        /\ col.some

\* C5: an open-collection that fails leaves the guard as it was: with
\* already-open no construction collaborator was invoked and the handle is
\* not replaced, with a construction failure the guard stays Closed; the
\* handle is installed only by an open that succeeds.
C5_FailedOpenFrame ==
    \A t \in Callers :
        (pc[t] = "done" /\ req[t].buf = "OpenCollection") =>
          /\ (result[t].tag # "Ok" => col = before[t].col)
          /\ (result[t] = CollectionAlreadyOpen
                => before[t].col.some /\ hist[t].collab = {})
          /\ (result[t].tag = "Err" /\ result[t] # CollectionAlreadyOpen
                => ~before[t].col.some /\ ~col.some)
          /\ (col # before[t].col
                => result[t].tag = "Ok" /\ ~before[t].col.some /\ col.some)

\* An open-collection whose storage could not be opened has failed, after an
\* earlier handle was installed and closed, and the guard is Closed.
C5_Witness ==
    \E t \in Callers :
        /\ pc[t] = "done"
        /\ req[t].buf = "OpenCollection"
        /\ result[t] = Err("DBError", "-")
        /\ hist[t].collab = { "default_logger", "open_collection" }
        /\ opened > 0
        /\ ~col.some

\* C6: close-collection on an installed handle that reports unsafe fails with
\* invalid-input and leaves the handle installed; on one that reports safe it
\* drops the handle, so that the guard is Closed, and a with_col request that
\* finds the guard Closed gets not-open.
C6_CloseSafety ==
    \A t \in Callers :
        /\ ( /\ pc[t] = "done"
             /\ req[t].buf = "CloseCollection"
             /\ before[t].lock = t
             /\ before[t].col.some )
           => IF can_close(before[t].col)
              THEN result[t] = Ok("CloseCollection") /\ col = None
              ELSE result[t] = InvalidInput /\ col = before[t].col
        /\ ( /\ pc[t] = "done"
             /\ req[t].buf \in WithCol
             /\ before[t].lock = t
             /\ ~before[t].col.some )
           => result[t] = CollectionNotOpen

\* A close-collection issued while a media sync is unfinished has failed with
\* invalid-input and the handle is still installed.
C6_Witness ==
    \E t \in Callers :
        /\ pc[t] = "done"
        /\ req[t].buf = "CloseCollection"
        /\ result[t] = InvalidInput
        /\ col.some
        /\ col.media_sync_running

\* Positions inside an exclusive section on the handle.
InSection(t) ==
    pc[t] \in { "open_locked", "close_locked", "func", "checker", "checker_cb",
                "sync_media_locked", "sync_media_finish_locked" }

\* Positions at which a caller waits for the mutex.
Waiting(t) ==
    pc[t] \in { "open_collection", "close_collection", "with_col", "sync_media",
                "sync_media_finish" }

\* C7: a caller inside an exclusive section on the handle (open, close, a
\* with_col closure, sync-media's mark-busy and clear-busy steps) holds the
\* mutex, and at most one caller is inside one.
C7_Exclusive ==
    /\ \A t \in Callers : InSection(t) => lock = t
    /\ Cardinality({ t \in Callers : InSection(t) }) <= 1

\* One caller is inside an exclusive section on an open handle while another
\* waits for the mutex.
C7_Witness ==
    \E t, u \in Callers :
        /\ t # u
        /\ InSection(t)
            /\ col.some
        /\ Waiting(u)

\* C8: a sync-media call that marked the handle busy and has returned (with a
\* result or an error) cleared the busy flag exactly once; no call clears
\* more often than it marked.
C8_BusyClearedOnce ==
    \A t \in Callers :
        /\ hist[t].marked <= 1
        /\ hist[t].clears <= hist[t].marked
        /\ ( /\ pc[t] = "done"
             /\ req[t].buf = "SyncMedia"
             /\ hist[t].marked = 1
             /\ result[t].tag \in { "Ok", "Err" } )
           => hist[t].clears = 1

\* A sync-media call that was cancelled through the progress callback has
\* returned interrupted, having marked and cleared the busy flag once.
C8_Witness ==
    \E t \in Callers :
        /\ pc[t] = "done"
        /\ req[t].buf = "SyncMedia"
        /\ result[t] = Interrupted
        /\ hist[t].marked = 1
        /\ hist[t].clears = 1
        /\ ~col.media_sync_running

\* Positions between the start and the end of a long operation.
InLongOp(t) ==
    pc[t] \in { "sync_media_inner", "block_on", "block_on_cb", "checker", "checker_cb" }

\* C9: no two long operations (sync-media, check-media, empty-trash,
\* restore-trash) are between their start and their end at the same time.
C9_LongOpsSerial == Cardinality({ t \in Callers : InLongOp(t) }) <= 1

\* Positions inside the host's progress delivery function.
InCallback(t) == pc[t] \in { "block_on_cb", "checker_cb" }

\* C10: the host's progress delivery function is never running for two
\* operations at the same time.
C10_OneDelivery == Cardinality({ t \in Callers : InCallback(t) }) <= 1

\* C12: with no delivery function installed the channel has answered continue
\* to every snapshot, so no operation is cancelled or ends interrupted; with
\* one installed, what the channel answered to the operation is what the
\* host's function returned.
C12_ChannelAnswer ==
    /\ progress_callback = "None" =>
          \A t \in Callers :
              /\ cont[t]
              /\ ~hist[t].cancelled
              /\ res[t] # Interrupted
              /\ result[t] # Interrupted
    /\ \A t \in Callers :
          pc[t] \in { "checker", "block_on" } => cont[t] = ~hist[t].cancelled

\* A media sync has delivered all its snapshots with no delivery function
\* installed and is still told to continue.
C12_Witness ==
    \E t \in Callers :
        /\ progress_callback = "None"
        /\ pc[t] = "block_on"
        /\ sent[t] = MaxProgress
        /\ cont[t]

\* C15: every internal error kind is translated to a wire error with its
\* value set; a network or sync failure goes out as that kind of wire error
\* carrying the variant of its own subtype, so that failures with distinct
\* subtypes go out distinct.
C15_TranslatorTotal ==
    \A t \in Callers :
        pc[t] = "done" =>
          /\ resp[t].out = "Error"
          /\ resp[t].value \in { "InvalidInput", "TemplateParse", "IoError", "DbError",
                                 "NetworkError", "SyncError", "Interrupted" }
          /\ (result[t].val = "NetworkError" =>
                /\ resp[t].value = "NetworkError"
                /\ resp[t].kind = WireKind("network_error", result[t].kind))
          /\ (result[t].val = "SyncError" =>
                /\ resp[t].value = "SyncError"
                /\ resp[t].kind = WireKind("sync_error", result[t].kind))
          /\ \A u \in Callers :
                ( /\ pc[u] = "done"
                  /\ result[u].val \in { "NetworkError", "SyncError" }
                  /\ result[t].val \in { "NetworkError", "SyncError" }
                  /\ result[u] # result[t] )
                => resp[u] # resp[t]

\* An offline network failure and a network failure of subtype other have
\* both been translated.
C15_Witness ==
    \E t, u \in Callers :
        /\ pc[t] = "done"
        /\ pc[u] = "done"
        /\ result[t] = Err("NetworkError", "Offline")
        /\ result[u] = Err("SyncError", "Other")
        /\ resp[t].kind.variant = "Offline"

\* Positions of sync_media between `drop(guard)` and the with_col that clears
\* the busy flag.
Unguarded(t) ==
    pc[t] \in { "sync_media_inner", "block_on", "block_on_cb", "sync_media_finish" }

C20_NoReentry ==
    \A t \in Callers :
        /\ Waiting(t) => lock # t
        /\ hist[t].locks <= 2
        /\ (lock = t => InSection(t))

\* A sync-media call waits for the mutex a second time, for its clear-busy
\* section, having released the one it took to mark the handle busy.
C20_Witness ==
    \E t \in Callers :
        /\ pc[t] = "sync_media_finish"
        /\ hist[t].locks = 1
        /\ lock # t

\* C11: a sync-media call during which the delivery function returned false
\* replies with interrupted; when it has replied the handle it ran on is still
\* installed, its busy flag is cleared and the mutex is free; and the
\* check-media call issued next is served on that handle (it is not refused
\* as not-open or invalid, and does not panic or block).
C11_InterruptedThenUsable ==
    /\ \A t \in Callers :
          InterruptedSync(t) =>
            /\ result[t] = Interrupted
            /\ resp[t] = OutputError([value |-> "Interrupted", kind |-> NoKind])
            /\ hist[t].clears = 1
            /\ col.some
            /\ ~col.media_sync_running
            /\ lock = 0
            /\ ~poisoned
    /\ \A t, u \in Callers :
          ( /\ pc[t] = "done" /\ req[t].buf = "SyncMedia" /\ hist[t].cancelled
            /\ pc[u] = "done" /\ req[u].buf = "CheckMedia" )
          => /\ result[u] \in { Ok("CheckMedia"), Err("IOError", "-"),
                                Err("DBError", "-"), Interrupted }
             /\ hist[u].locks = 1
             /\ col.some
             /\ col.id = before[t].col.id
             /\ lock = 0

\* A sync-media call was cancelled on its second progress message and replied
\* interrupted, and the check-media call issued after it has succeeded.
C11_Witness ==
    \E t, u \in Callers :
        /\ pc[t] = "done"
        /\ req[t].buf = "SyncMedia"
        /\ hist[t].cancelled
        /\ resp[t].value = "Interrupted"
        /\ pc[u] = "done"
        /\ req[u].buf = "CheckMedia"
        /\ result[u] = Ok("CheckMedia")

\* C14: two runs of the same request on the same state of the guard return
\* the same response.
C14_Deterministic ==
    \A t, u \in Callers :
        ( /\ pc[t] = "done"
          /\ pc[u] = "done"
          /\ req[t] = req[u]
          /\ before[t] = before[u] )
        => resp[t] = resp[u]

\* C16: a template-requirements request succeeds whatever its templates are
\* and returns one requirement per template, in the order of the request: the
\* none value for a template that does not parse, and for one that parses the
\* requirement of that template alone.
C16_NeverAborts ==
    \A t \in Callers :
        (pc[t] = "done" /\ req[t].buf = "TemplateRequirements") =>
          /\ result[t].tag = "Ok"
          /\ resp[t].out = "Value"
          /\ Len(resp[t].data) = Len(req[t].arg)
          /\ \A i \in 1..Len(req[t].arg) :
                IF req[t].arg[i].parses
                THEN /\ resp[t].data[i].value = req[t].arg[i].req
                     /\ { resp[t].data[i].ords[k] :
                            k \in 1..Len(resp[t].data[i].ords) } = req[t].arg[i].ords
                     /\ Len(resp[t].data[i].ords) = Cardinality(req[t].arg[i].ords)
                ELSE resp[t].data[i] = [value |-> "None", ords |-> <<>>]

\* A request whose first template does not parse and whose second requires
\* all of two fields was answered with the none value followed by that
\* requirement.
C16_Witness ==
    \E t \in Callers :
        /\ pc[t] = "done"
        /\ req[t].arg = <<BadTemplate, Template("All", Ords)>>
        /\ resp[t].out = "Value"
        /\ resp[t].data[1].value = "None"
        /\ resp[t].data[2].value = "All"

\* The requests that change the persisted state.
Mutating ==
    { "AddCard", "UpdateCard", "AddMediaFile", "TrashMediaFiles", "EmptyTrash",
      "RestoreTrash" }

\* C13: when add-card, update-card, add-media-file, trash-media-files,
\* empty-trash or restore-trash returns an error, the persisted state is what
\* it was before the handler ran.
C13_FailureRollsBack ==
    \A t \in Callers :
        ( /\ pc[t] = "done"
          /\ req[t].buf \in Mutating
          /\ result[t].tag = "Err" )
        => disk = before[t].disk

\* C17: in the scenario every step has the stated outcome: an open that finds
\* a handle returns already-open, a close of an open collection succeeds and
\* leaves it closed, a get-card on a closed engine returns not-open, an
\* add-card that succeeds returns a new positive id, and the card read back
\* under that id is the card that was added, with the new id.
C17_Scenario ==
    /\ \A t \in Callers :
          pc[t] = "done" =>
            /\ (req[t].buf = "OpenCollection" /\ before[t].col.some
                  => result[t] = CollectionAlreadyOpen)
            /\ (req[t].buf = "OpenCollection" /\ result[t].tag = "Ok"
                  => ~before[t].col.some /\ col.some)
            /\ (req[t].buf = "CloseCollection" /\ before[t].col.some
                  => result[t] = Ok("CloseCollection") /\ ~col.some)
            /\ (req[t].buf = "GetCard" /\ ~before[t].col.some
                  => result[t] = CollectionNotOpen)
            /\ (req[t].buf = "AddCard" /\ result[t].tag = "Ok"
                  => /\ result[t].data[1] > 0
                     /\ result[t].data[1] \notin 1..Len(before[t].disk.cards)
                     /\ result[t].data[1] \in 1..Len(disk.cards))
    /\ \A t, u \in Callers :
          ( /\ pc[t] = "done" /\ req[t].buf = "AddCard" /\ result[t].tag = "Ok"
            /\ pc[u] = "done" /\ req[u].buf = "GetCard"
            /\ req[u].arg = result[t].data
            /\ result[u].tag = "Ok" )
          => resp[u].data = << [req[t].arg[1] EXCEPT !.id = result[t].data[1]] >>

\* C21: the wire error value identifies the internal error kind: two errors of
\* different internal kinds are never translated to the same wire value, so a
\* not-open, an already-open and an invalid-input failure reach the host with
\* three different wire values.
C21_WireKindIdentifies ==
    \A t, u \in Callers :
        ( /\ pc[t] = "done"
          /\ pc[u] = "done"
          /\ result[t].tag = "Err"
          /\ result[u].tag = "Err"
          /\ result[t].val # result[u].val )
        => resp[t].value # resp[u].value

\* C22: a sync-media call whose mark-busy step fails returns that error in
\* the same step, with the mutex released and the handle as it found it: it
\* took the mutex once, ran no long operation and no clear-busy step.  The
\* busy flag of a handle is taken down only by the clear-busy step of a call
\* that marked it.
C22_FailedMarkReturns ==
    [][ /\ \A t \in Callers :
              ( /\ pc[t] = "sync_media_locked"
                /\ pc'[t] # "sync_media_locked"
                /\ col.some
                /\ set_media_sync_running(col).r.tag = "Err" )
              => /\ pc'[t] = "done"
                 /\ result'[t] = set_media_sync_running(col).r
                 /\ resp'[t].out = "Error"
                 /\ lock' = 0
                 /\ col' = col
                 /\ res'[t] = NoResult
                 /\ hist'[t].locks = 1
                 /\ hist'[t].marked = 0
                 /\ hist'[t].clears = 0
        /\ ( col.some /\ col.media_sync_running /\ col' # col )
              => \E u \in Callers :
                    /\ pc[u] = "sync_media_finish_locked"
                    /\ hist[u].marked = 1
                    /\ hist'[u].clears = hist[u].clears + 1
                    /\ col' = [col EXCEPT !.media_sync_running = FALSE]
      ]_vars

\* A sync-media call has returned the mark-busy step's error while the sync
\* that marked the handle is still in its long operation, the flag still set.
C22_Witness ==
    \E t, u \in Callers :
        /\ pc[t] = "done"
        /\ req[t].buf = "SyncMedia"
        /\ result[t] = InvalidInput
        /\ hist[t].marked = 0
        /\ hist[t].locks = 1
        /\ pc[u] = "block_on"
        /\ hist[u].marked = 1
        /\ lock = 0
        /\ col.some
        /\ col.media_sync_running

\* Caller t's sync-media call has marked the handle busy and has not finished
\* its clear-busy section.
Marked(t) ==
    /\ hist[t].marked = 1
    /\ pc[t] \in { "sync_media_inner", "block_on", "block_on_cb",
                   "sync_media_finish", "sync_media_finish_locked" }

\* C23: with a handle that reports unsafe-to-close while its busy flag is set,
\* whatever open-collection and close-collection calls other callers interleave
\* with a sync-media call, from its mark-busy step to the end of its
\* clear-busy step the handle it marked stays installed, busy, and is neither
\* dropped nor replaced; the clear-busy step finds that handle, clears its
\* flag and does not fail with collection-not-open.
C23_SameHandle ==
    [][ \A t \in Callers :
            Marked(t) =>
              /\ col.some
              /\ col.media_sync_running
              /\ ~can_close(col)
              /\ col'.some
              /\ col'.id = col.id
              /\ ( pc[t] = "sync_media_finish_locked" /\ pc'[t] = "done" )
                    => /\ result'[t] # CollectionNotOpen
                       /\ hist'[t].clears = 1
                       /\ col' = [col EXCEPT !.media_sync_running = FALSE]
      ]_vars

\* A sync-media call on the second handle the engine installed has run its
\* clear-busy step and returned, while another caller's close-collection
\* waits for the mutex.
C23_Witness ==
    \E t, u \in Callers :
        /\ pc[t] = "done"
        /\ req[t].buf = "SyncMedia"
        /\ result[t].tag \in { "Ok", "Err" }
        /\ hist[t].marked = 1
        /\ hist[t].clears = 1
        /\ before[t].col = [Handle(2) EXCEPT !.media_sync_running = TRUE]
        /\ col = Handle(2)
        /\ pc[u] = "close_collection"

\* C24: a call that has returned, with a result or an error, does not hold
\* the mutex; and under fair scheduling every caller blocked in lock() gets
\* the mutex: it enters its exclusive section, or, the mutex being poisoned,
\* lock() hands it the guard inside a PoisonError and the unwrap unwinds the
\* call.  No call keeps the mutex for ever.
C24_GuardReleased ==
    /\ [](\A t \in Callers :
            pc[t] = "done" /\ result[t].tag \in { "Ok", "Err" } => lock # t)
    /\ \A t \in Callers :
          Waiting(t) ~> ( \/ InSection(t) /\ lock = t
                          \/ pc[t] = "done" /\ poisoned /\ result[t] = Panic )
    /\ \A t \in Callers : (lock = t) ~> (lock # t)

\* A close-collection call waits in lock() while a check-media call holds the
\* mutex inside the host's delivery function.
C24_Witness ==
    \E t, u \in Callers :
        /\ pc[t] = "close_collection"
        /\ pc[u] = "checker_cb"
        /\ lock = u
        /\ col.some

====
